---- MODULE Spec2Model ----
(***************************************************************************)
(* A model of the AUC Archive chatbot (auc_archive_chatbot.py): the        *)
(* collection index built by initialize(), the ordered intent rules of     *)
(* process_query(), the dispatch to the remote archive client and the      *)
(* formatting of its answers.                                              *)
(*                                                                         *)
(* Strings are sequences of one-character strings, so that lower(),        *)
(* strip(), lstrip('/'), the substring test and the three regular          *)
(* expressions are computed character by character.  A Python dict whose   *)
(* keys may be absent is a function whose DOMAIN is the set of keys        *)
(* present; the insertion-ordered dict collection_lookup is a sequence of  *)
(* key/alias pairs.  A reply is the sequence of lines that the code joins  *)
(* with "\n".                                                              *)
(***************************************************************************)
EXTENDS Integers, Sequences, FiniteSets, TLC

(***************************************************************************)
(* Characters and the string primitives of Python that the code uses.      *)
(***************************************************************************)
UpperAlpha ==
    <<"A","B","C","D","E","F","G","H","I","J","K","L","M",
      "N","O","P","Q","R","S","T","U","V","W","X","Y","Z">>

LowerAlpha ==
    <<"a","b","c","d","e","f","g","h","i","j","k","l","m",
      "n","o","p","q","r","s","t","u","v","w","x","y","z">>

Digits ==
    {"0","1","2","3","4","5","6","7","8","9"}

\* str.isspace() on one character (the whitespace the inputs can carry)
IsSpace(c) ==
    c \in {" ", "\t"}

\* the class \w of the re module
IsWord(c) ==
    \/ \E i \in 1..Len(LowerAlpha) : c = LowerAlpha[i] \/ c = UpperAlpha[i]
    \/ c \in Digits
    \/ c = "_"

LowerChar(c) ==
    IF \E i \in 1..Len(UpperAlpha) : UpperAlpha[i] = c
    THEN LowerAlpha[CHOOSE i \in 1..Len(UpperAlpha) : UpperAlpha[i] = c]
    ELSE c

\* str.lower()
Lower(s) ==
    [i \in 1..Len(s) |-> LowerChar(s[i])]

\* the number of leading characters of s that are whitespace
LeadingSpaces(s) ==
    CHOOSE n \in 0..Len(s) :
        /\ \A i \in 1..n : IsSpace(s[i])
        /\ (n = Len(s) \/ ~IsSpace(s[n + 1]))

\* the number of trailing characters of s that are whitespace
TrailingSpaces(s) ==
    CHOOSE n \in 0..Len(s) :
        /\ \A i \in (Len(s) - n + 1)..Len(s) : IsSpace(s[i])
        /\ (n = Len(s) \/ ~IsSpace(s[Len(s) - n]))

\* str.strip()
Strip(s) ==
    IF LeadingSpaces(s) = Len(s) THEN <<>>
    ELSE SubSeq(s, LeadingSpaces(s) + 1, Len(s) - TrailingSpaces(s))

\* str.lstrip('/')
LStripSlash(s) ==
    LET n == CHOOSE k \in 0..Len(s) :
                 /\ \A i \in 1..k : s[i] = "/"
                 /\ (k = Len(s) \/ s[k + 1] # "/")
    IN  SubSeq(s, n + 1, Len(s))

\* the literal lit occupies s[p .. p + Len(lit) - 1]
LitAt(s, p, lit) ==
    /\ p >= 1
    /\ p + Len(lit) - 1 <= Len(s)
    /\ SubSeq(s, p, p + Len(lit) - 1) = lit

\* Python's  sub in s  on strings
Contains(sub, s) ==
    \E p \in 1..(Len(s) - Len(sub) + 1) : LitAt(s, p, sub)

\* str.startswith
StartsWith(s, prefix) ==
    LitAt(s, 1, prefix)

\* the length of the longest run of whitespace starting at s[i]
SpaceRun(s, i) ==
    CHOOSE n \in 0..(Len(s) - i + 1) :
        /\ \A j \in i..(i + n - 1) : IsSpace(s[j])
        /\ (i + n > Len(s) \/ ~IsSpace(s[i + n]))

\* the length of the longest run of \w characters starting at s[i]
WordRun(s, i) ==
    CHOOSE n \in 0..(Len(s) - i + 1) :
        /\ \A j \in i..(i + n - 1) : IsWord(s[j])
        /\ (i + n > Len(s) \/ ~IsWord(s[i + n]))

\* dict.get(k, default)
Get(d, k, default) ==
    IF k \in DOMAIN d THEN d[k] ELSE default

\* ', '.join(names)
RECURSIVE JoinComma(_)
JoinComma(names) ==
    IF names = <<>> THEN <<>>
    ELSE IF Len(names) = 1 THEN names[1]
    ELSE names[1] \o <<",", " ">> \o JoinComma(Tail(names))

\* seq[:n]
Take(seq, n) ==
    SubSeq(seq, 1, IF Len(seq) < n THEN Len(seq) ELSE n)

(***************************************************************************)
(* The regular expressions of process_query, as re.search computes them:   *)
(* the leftmost start wins, a greedy quantifier takes the longest run that *)
(* still lets the rest match, a lazy one the shortest.                     *)
(***************************************************************************)
kw_browse ==
    <<"b","r","o","w","s","e">>

kw_search ==
    <<"s","e","a","r","c","h">>

kw_in ==
    <<"i","n">>

kw_item ==
    <<"i","t","e","m">>

kw_collections ==
    <<"c","o","l","l","e","c","t","i","o","n","s">>

kw_list_collections ==
    <<"l","i","s","t"," ","c","o","l","l","e","c","t","i","o","n","s">>

kw_search_prefix ==
    <<"s","e","a","r","c","h"," ">>

HelpWords ==
    { <<"h","e","l","p">>, <<"?">>, <<"c","o","m","m","a","n","d","s">> }

NoMatch ==
    [ok |-> FALSE, g1 |-> <<>>, g2 |-> <<>>]

\* the tail  \s+(.+)  matches from s[d] to the end of s
TailOk(s, d) ==
    /\ d + 1 <= Len(s)
    /\ IsSpace(s[d])

\* the group (.+) of the tail  \s+(.+)  matched at s[d]: what follows the
\* whitespace run, or its last character when the run reaches the end of s
TailGroup(s, d) ==
    IF d + SpaceRun(s, d) <= Len(s)
    THEN SubSeq(s, d + SpaceRun(s, d), Len(s))
    ELSE SubSeq(s, Len(s), Len(s))

\* r'browse\s+(.+)' matches at s[p]
BrowseAt(s, p) ==
    /\ LitAt(s, p, kw_browse)
    /\ TailOk(s, p + Len(kw_browse))

\* re.match(r'browse\s+(.+)', s): the pattern tried at the start of s only
BrowseMatchAtStart(s) ==
    IF BrowseAt(s, 1)
    THEN [ok |-> TRUE, g1 |-> TailGroup(s, 1 + Len(kw_browse)), g2 |-> <<>>]
    ELSE NoMatch

\* re.search(r'browse\s+(.+)', s)
BrowseMatch(s) ==
    IF \E p \in 1..Len(s) : BrowseAt(s, p)
    THEN LET p == CHOOSE x \in 1..Len(s) :
                      BrowseAt(s, x) /\ \A y \in 1..(x - 1) : ~BrowseAt(s, y)
         IN  [ok |-> TRUE, g1 |-> TailGroup(s, p + Len(kw_browse)), g2 |-> <<>>]
    ELSE NoMatch

\* r'search\s+(.+?)\s+in\s+(.+)' matches at s[p] with the first \s+ taking k
\* characters and the lazy group (.+?) taking n
SearchInAt(s, p, k, n) ==
    /\ LitAt(s, p, kw_search)
    /\ k >= 1
    /\ k <= SpaceRun(s, p + Len(kw_search))
    /\ n >= 1
    /\ LET b == p + Len(kw_search) + k + n
       IN  /\ b <= Len(s)
           /\ IsSpace(s[b])
           /\ LitAt(s, b + SpaceRun(s, b), kw_in)
           /\ TailOk(s, b + SpaceRun(s, b) + Len(kw_in))

\* the pattern matches at s[p] with the first \s+ taking k characters
SearchInAtK(s, p, k) ==
    \E n \in 1..Len(s) : SearchInAt(s, p, k, n)

\* the pattern matches at s[p]
SearchInAtP(s, p) ==
    /\ LitAt(s, p, kw_search)
    /\ \E k \in 1..SpaceRun(s, p + Len(kw_search)) : SearchInAtK(s, p, k)

\* re.search(r'search\s+(.+?)\s+in\s+(.+)', s): leftmost p, then the longest
\* first whitespace run k, then the shortest lazy group n
SearchInMatch(s) ==
    IF \E p \in 1..Len(s) : SearchInAtP(s, p)
    THEN LET p == CHOOSE x \in 1..Len(s) :
                      SearchInAtP(s, x) /\ \A y \in 1..(x - 1) : ~SearchInAtP(s, y)
             w == SpaceRun(s, p + Len(kw_search))
             k == CHOOSE x \in 1..w :
                      SearchInAtK(s, p, x) /\ \A y \in (x + 1)..w : ~SearchInAtK(s, p, y)
             n == CHOOSE x \in 1..Len(s) :
                      SearchInAt(s, p, k, x) /\ \A y \in 1..(x - 1) : ~SearchInAt(s, p, k, y)
             a == p + Len(kw_search) + k
             b == a + n
         IN  [ok |-> TRUE,
              g1 |-> SubSeq(s, a, b - 1),
              g2 |-> TailGroup(s, b + SpaceRun(s, b) + Len(kw_in))]
    ELSE NoMatch

\* r'item\s+(\w+)\s+(\w+)' matches at s[p]
ItemAt(s, p) ==
    /\ LitAt(s, p, kw_item)
    /\ LET q == p + Len(kw_item)
           a == q + SpaceRun(s, q)
           b == a + WordRun(s, a)
           c == b + SpaceRun(s, b)
       IN  /\ SpaceRun(s, q) >= 1
           /\ WordRun(s, a) >= 1
           /\ SpaceRun(s, b) >= 1
           /\ WordRun(s, c) >= 1

\* re.search(r'item\s+(\w+)\s+(\w+)', s)
ItemMatch(s) ==
    IF \E p \in 1..Len(s) : ItemAt(s, p)
    THEN LET p == CHOOSE x \in 1..Len(s) :
                      ItemAt(s, x) /\ \A y \in 1..(x - 1) : ~ItemAt(s, y)
             q == p + Len(kw_item)
             a == q + SpaceRun(s, q)
             b == a + WordRun(s, a)
             c == b + SpaceRun(s, b)
         IN  [ok |-> TRUE,
              g1 |-> SubSeq(s, a, b - 1),
              g2 |-> SubSeq(s, c, c + WordRun(s, c) - 1)]
    ELSE NoMatch

(***************************************************************************)
(* Values.  A reply line is a tagged tuple of the values the code formats  *)
(* into it; a remote call is recorded with its arguments.                  *)
(***************************************************************************)
Line(tag, a, b, n, m) ==
    [tag |-> tag, a |-> a, b |-> b, n |-> n, m |-> m]

Call(fn, alias, arg, maxrecs) ==
    [fn |-> fn, alias |-> alias, arg |-> arg, maxrecs |-> maxrecs]

Intent(rule, kind, a, b) ==
    [rule |-> rule, kind |-> kind, a |-> a, b |-> b]

txt_untitled ==
    <<"U","n","t","i","t","l","e","d">>

txt_date_unknown ==
    <<"D","a","t","e"," ","u","n","k","n","o","w","n">>

txt_unknown ==
    <<"U","n","k","n","o","w","n">>

txt_unknown_alias ==
    <<"u","n","k","n","o","w","n">>

txt_zero ==
    <<"0">>

\* records[:10] in format_search_results
RenderLimit ==
    10

\* all_results[:10] in search_all_collections
CombinedLimit ==
    10

\* self.collections[:10] in process_query
NameScanLimit ==
    10

\* self.collections[:5] in search_all_collections
SearchAllLimit ==
    5

\* max_records=5 in search_all_collections
SearchAllMaxRecords ==
    5

\* searched_collections[:3]
TrailerLimit ==
    3

\* self.collections[:20] in list_collections
ListLimit ==
    20

\* max_records: int = 20, the default of search_items and browse_collection
DefaultMaxRecords ==
    20

(***************************************************************************)
(* initialize(): the insertion-ordered dict collection_lookup.             *)
(***************************************************************************)
\* d[k] = v on an insertion-ordered dict: an existing key keeps its place
DictSet(d, k, v) ==
    IF \E i \in 1..Len(d) : d[i].key = k
    THEN [i \in 1..Len(d) |-> IF d[i].key = k THEN [key |-> k, alias |-> v] ELSE d[i]]
    ELSE Append(d, [key |-> k, alias |-> v])

\* InsertCollection with the display name inserted as it is spelled
InsertCollectionCaseSensitive(d, collection) ==
    LET alias == LStripSlash(Get(collection, "alias", <<>>))
        name  == Get(collection, "name", <<>>)
    IN  IF alias # <<>>
        THEN DictSet(DictSet(d, Lower(alias), alias), name, alias)
        ELSE d

\* the two insertions initialize() makes for one collection
InsertCollection(d, collection) ==
    LET alias == LStripSlash(Get(collection, "alias", <<>>))
        name  == Get(collection, "name", <<>>)
    IN  IF alias # <<>>
        THEN DictSet(DictSet(d, Lower(alias), alias), Lower(name), alias)
        ELSE d

\* the loop of initialize() over collections_data
RECURSIVE BuildLookup(_, _)
BuildLookup(colls, d) ==
    IF colls = <<>> THEN d
    ELSE BuildLookup(Tail(colls), InsertCollection(d, Head(colls)))

(***************************************************************************)
(* find_collection_alias                                                   *)
(***************************************************************************)
NoAlias ==
    [found |-> FALSE, alias |-> <<>>]

\* collection_name in key or key in collection_name
PartialMatch(name, key) ==
    Contains(name, key) \/ Contains(key, name)

\* PartialIndex with the loop running on to the last key that matches
LastPartialIndex(lookup, name) ==
    CHOOSE i \in 1..Len(lookup) :
        /\ PartialMatch(name, lookup[i].key)
        /\ \A j \in (i + 1)..Len(lookup) : ~PartialMatch(name, lookup[j].key)

\* the index of the key the partial-match loop returns on
PartialIndex(lookup, name) ==
    CHOOSE i \in 1..Len(lookup) :
        /\ PartialMatch(name, lookup[i].key)
        /\ \A j \in 1..(i - 1) : ~PartialMatch(name, lookup[j].key)

find_collection_alias(lookup, collection_name) ==
    LET name == Strip(Lower(collection_name))
    IN  IF \E i \in 1..Len(lookup) : lookup[i].key = name
        THEN [found |-> TRUE,
              alias |-> lookup[CHOOSE i \in 1..Len(lookup) : lookup[i].key = name].alias]
        ELSE IF \E i \in 1..Len(lookup) : PartialMatch(name, lookup[i].key)
        THEN [found |-> TRUE, alias |-> lookup[PartialIndex(lookup, name)].alias]
        ELSE NoAlias

(***************************************************************************)
(* format_search_results                                                   *)
(***************************************************************************)
\* the lines of one record of the numbered list
RecordLines(record, i) ==
    LET title   == Get(record, "title", txt_untitled)
        date    == Get(record, "date", txt_date_unknown)
        clean   == LStripSlash(Get(record, "collection", <<>>))
        pointer == Get(record, "pointer", <<>>)
    IN  <<Line("Record", title, <<>>, i, 0)>>
        \o (IF date # <<>> /\ date # txt_date_unknown
            THEN <<Line("Date", date, <<>>, 0, 0)>> ELSE <<>>)
        \o <<Line("Url", clean, pointer, 0, 0), Line("Blank", <<>>, <<>>, 0, 0)>>

\* the loop  for i, record in enumerate(records, 1)  from record i on
RECURSIVE RenderRecords(_, _)
RenderRecords(records, i) ==
    IF i > Len(records) THEN <<>>
    ELSE RecordLines(records[i], i) \o RenderRecords(records, i + 1)

\* SummaryLines with the total compared to the records of the payload
SummaryLinesOfPayload(results, records) ==
    LET total == Get(Get(results, "pager", <<>>), "total", Len(records))
    IN  IF total > Len(Get(results, "records", <<>>))
        THEN <<Line("Showing", <<>>, <<>>, Len(records), total)>>
        ELSE <<>>

\* the "Showing X of Y" line, when total > len(records)
SummaryLines(results, records) ==
    LET total == Get(Get(results, "pager", <<>>), "total", Len(records))
    IN  IF total > Len(records)
        THEN <<Line("Showing", <<>>, <<>>, Len(records), total)>>
        ELSE <<>>

\* format_search_results without the check for an error value
format_search_results_unchecked(results, collection_name) ==
    IF Get(results, "records", <<>>) = <<>>
    THEN <<Line("NoItemsFound", <<>>, <<>>, 0, 0)>>
    ELSE LET records == Take(results["records"], RenderLimit)
         IN  <<IF collection_name # <<>>
               THEN Line("ResultsFrom", collection_name, <<>>, 0, 0)
               ELSE Line("Results", <<>>, <<>>, 0, 0)>>
             \o RenderRecords(records, 1)
             \o SummaryLines(results, records)

format_search_results(results, collection_name) ==
    IF "error" \in DOMAIN results
    THEN <<Line("SearchError", results["error"], <<>>, 0, 0)>>
    ELSE IF Get(results, "records", <<>>) = <<>>
    THEN <<Line("NoItemsFound", <<>>, <<>>, 0, 0)>>
    ELSE LET records == Take(results["records"], RenderLimit)
         IN  <<IF collection_name # <<>>
               THEN Line("ResultsFrom", collection_name, <<>>, 0, 0)
               ELSE Line("Results", <<>>, <<>>, 0, 0)>>
             \o RenderRecords(records, 1)
             \o SummaryLines(results, records)

(***************************************************************************)
(* format_item_details                                                     *)
(***************************************************************************)
\* GetEither with the long alias preferred
GetEitherLongFirst(item_data, short, long) ==
    Get(item_data, long, Get(item_data, short, <<>>))

\* item_data.get(short, item_data.get(long, ''))
GetEither(item_data, short, long) ==
    Get(item_data, short, Get(item_data, long, <<>>))

\* one optional line: appended when the value is truthy
FieldLine(tag, value) ==
    IF value # <<>> THEN <<Line(tag, value, <<>>, 0, 0)>> ELSE <<>>

format_item_details(item_data, collection_alias) ==
    IF "error" \in DOMAIN item_data
    THEN <<Line("ItemError", item_data["error"], <<>>, 0, 0)>>
    ELSE LET pointer == GetEither(item_data, "dmrecord", "pointer")
         IN  <<Line("ItemDetails", <<>>, <<>>, 0, 0),
               Line("Title", Get(item_data, "title", txt_untitled), <<>>, 0, 0)>>
             \o FieldLine("Date", Get(item_data, "date", <<>>))
             \o FieldLine("Creator", GetEither(item_data, "creato", "creator"))
             \o FieldLine("Subject", GetEither(item_data, "subjec", "subject"))
             \o FieldLine("Description", GetEither(item_data, "descri", "description"))
             \o FieldLine("Format", GetEither(item_data, "format", "type"))
             \o FieldLine("Rights", Get(item_data, "rights", <<>>))
             \o (IF pointer # <<>>
                 THEN <<Line("ViewItem", LStripSlash(collection_alias), pointer, 0, 0)>>
                 ELSE <<>>)

(***************************************************************************)
(* The handlers.  Each returns the remote calls it made, in order, and the *)
(* reply.  ans.q[i] is what the remote query service answers (for          *)
(* search_all_collections: to the query on the i-th loaded collection),    *)
(* ans.item what dmGetItemInfo answers.                                    *)
(***************************************************************************)
Outcome(calls, reply) ==
    [calls |-> calls, reply |-> reply]

NotFoundReply(collection_name) ==
    <<Line("CollectionNotFound", collection_name, <<>>, 0, 0)>>

\* next((c for c in self.collections if c.get('alias') == collection_alias), {})
\* followed by .get('name', collection_name)
DisplayName(colls, collection_alias, collection_name) ==
    IF \E i \in 1..Len(colls) :
           "alias" \in DOMAIN colls[i] /\ colls[i]["alias"] = collection_alias
    THEN LET i == CHOOSE x \in 1..Len(colls) :
                      /\ "alias" \in DOMAIN colls[x]
                      /\ colls[x]["alias"] = collection_alias
                      /\ \A y \in 1..(x - 1) :
                             ~("alias" \in DOMAIN colls[y]
                               /\ colls[y]["alias"] = collection_alias)
         IN  Get(colls[i], "name", collection_name)
    ELSE collection_name

\* browse_collection without the check of what find_collection_alias returned
browse_collection_unchecked(colls, lookup, collection_name, ans) ==
    LET r == find_collection_alias(lookup, collection_name)
    IN  Outcome(<<Call("browse_collection", r.alias, <<>>, DefaultMaxRecords)>>,
                format_search_results(
                    ans.q[1], DisplayName(colls, r.alias, collection_name)))

browse_collection(colls, lookup, collection_name, ans) ==
    LET r == find_collection_alias(lookup, collection_name)
    IN  IF ~r.found \/ r.alias = <<>>
        THEN Outcome(<<>>, NotFoundReply(collection_name))
        ELSE Outcome(<<Call("browse_collection", r.alias, <<>>, DefaultMaxRecords)>>,
                     format_search_results(
                         ans.q[1], DisplayName(colls, r.alias, collection_name)))

search_in_collection(colls, lookup, search_terms, collection_name, ans) ==
    LET r == find_collection_alias(lookup, collection_name)
    IN  IF ~r.found \/ r.alias = <<>>
        THEN Outcome(<<>>, NotFoundReply(collection_name))
        ELSE Outcome(<<Call("search_items", r.alias, search_terms, DefaultMaxRecords)>>,
                     format_search_results(
                         ans.q[1], DisplayName(colls, r.alias, collection_name)))

get_item_details(collection_alias, item_id, ans) ==
    Outcome(<<Call("get_item_info", collection_alias, item_id, 0)>>,
            format_item_details(ans.item, collection_alias))

\* the calls the loop of search_all_collections makes on collections i, i+1, ...
RECURSIVE SearchAllCalls(_, _, _)
SearchAllCalls(colls, search_terms, i) ==
    IF i > Len(colls) THEN <<>>
    ELSE (IF Get(colls[i], "alias", <<>>) # <<>>
          THEN <<Call("search_items", colls[i]["alias"], search_terms,
                      SearchAllMaxRecords)>>
          ELSE <<>>)
         \o SearchAllCalls(colls, search_terms, i + 1)

\* the collection at position i was queried and its answer holds records
HasHits(colls, ans, i) ==
    /\ Get(colls[i], "alias", <<>>) # <<>>
    /\ Get(ans.q[i], "records", <<>>) # <<>>

\* all_results after the loop has handled collections i, i+1, ...
RECURSIVE AllResults(_, _, _)
AllResults(colls, ans, i) ==
    IF i > Len(colls) THEN <<>>
    ELSE (IF HasHits(colls, ans, i) THEN ans.q[i]["records"] ELSE <<>>)
         \o AllResults(colls, ans, i + 1)

\* searched_collections after the loop has handled collections i, i+1, ...
RECURSIVE SearchedCollections(_, _, _)
SearchedCollections(colls, ans, i) ==
    IF i > Len(colls) THEN <<>>
    ELSE (IF HasHits(colls, ans, i) THEN <<Get(colls[i], "name", <<>>)>> ELSE <<>>)
         \o SearchedCollections(colls, ans, i + 1)

\* the lines of one record of the combined list
CombinedLines(record, i) ==
    LET title   == Get(record, "title", txt_untitled)
        date    == Get(record, "date", <<>>)
        alias   == Get(record, "collection", <<>>)
        pointer == Get(record, "pointer", <<>>)
    IN  <<Line("Record", title, <<>>, i, 0)>>
        \o FieldLine("Date", date)
        \o <<Line("Collection", alias, <<>>, 0, 0),
             Line("Url", LStripSlash(alias), pointer, 0, 0),
             Line("Blank", <<>>, <<>>, 0, 0)>>

RECURSIVE RenderCombined(_, _)
RenderCombined(records, i) ==
    IF i > Len(records) THEN <<>>
    ELSE CombinedLines(records[i], i) \o RenderCombined(records, i + 1)

\* the "Searched in" line and the line counting the remaining collections
Trailer(searched_collections) ==
    <<Line("SearchedIn", JoinComma(Take(searched_collections, TrailerLimit)), <<>>, 0, 0)>>
    \o (IF Len(searched_collections) > TrailerLimit
        THEN <<Line("MoreCollections", <<>>, <<>>,
                    Len(searched_collections) - TrailerLimit, 0)>>
        ELSE <<>>)

search_all_collections(colls, search_terms, ans) ==
    IF colls = <<>>
    THEN Outcome(<<>>, <<Line("NoCollections", <<>>, <<>>, 0, 0)>>)
    ELSE LET first       == Take(colls, SearchAllLimit)
             all_results == AllResults(first, ans, 1)
             calls       == SearchAllCalls(first, search_terms, 1)
         IN  IF all_results = <<>>
             THEN Outcome(calls, <<Line("NoItemsFor", search_terms, <<>>, 0, 0)>>)
             ELSE Outcome(calls,
                          <<Line("ResultsAcross", search_terms, <<>>, 0, 0)>>
                          \o RenderCombined(Take(all_results, CombinedLimit), 1)
                          \o Trailer(SearchedCollections(first, ans, 1)))

\* the lines of one collection of the bulleted list
CollectionLines(collection) ==
    LET name      == Get(collection, "name", txt_unknown)
        alias     == LStripSlash(Get(collection, "alias", txt_unknown_alias))
        secondary == Get(collection, "secondary", <<>>)
    IN  <<Line("Collection", name, alias, 0, 0)>>
        \o (IF secondary # <<>> /\ secondary # txt_zero
            THEN <<Line("PartOf", secondary, <<>>, 0, 0)>> ELSE <<>>)

RECURSIVE RenderCollections(_, _)
RenderCollections(colls, i) ==
    IF i > Len(colls) THEN <<>>
    ELSE CollectionLines(colls[i]) \o RenderCollections(colls, i + 1)

list_collections(colls) ==
    IF colls = <<>>
    THEN Outcome(<<>>, <<Line("CollectionsNotLoaded", <<>>, <<>>, 0, 0)>>)
    ELSE Outcome(<<>>,
                 <<Line("AvailableCollections", <<>>, <<>>, 0, 0)>>
                 \o RenderCollections(Take(colls, ListLimit), 1)
                 \o (IF Len(colls) > ListLimit
                     THEN <<Line("ShowingCollections", <<>>, <<>>, ListLimit, Len(colls))>>
                     ELSE <<>>))

get_help_message ==
    Outcome(<<>>, <<Line("Help", <<>>, <<>>, 0, 0)>>)

(***************************************************************************)
(* process_query: the ordered rules.  IntentOf is the rule that fires and  *)
(* the arguments it extracts; process_query dispatches on it.              *)
(***************************************************************************)
\* some collection among the first NameScanLimit has a non-empty lowercased
\* name that occurs in user_input
NameHit(colls, user_input, i) ==
    /\ Lower(Get(colls[i], "name", <<>>)) # <<>>
    /\ Contains(Lower(Get(colls[i], "name", <<>>)), user_input)

\* FirstNameHit with the loop running on to the last collection that matches
LastNameHit(colls, user_input) ==
    CHOOSE i \in 1..Len(colls) :
        /\ NameHit(colls, user_input, i)
        /\ \A j \in (i + 1)..Len(colls) : ~NameHit(colls, user_input, j)

\* the index the loop over self.collections[:10] returns on
FirstNameHit(colls, user_input) ==
    CHOOSE i \in 1..Len(colls) :
        /\ NameHit(colls, user_input, i)
        /\ \A j \in 1..(i - 1) : ~NameHit(colls, user_input, j)

\* user_input is already stripped and lowercased
IntentOf(colls, user_input) ==
    LET scanned == Take(colls, NameScanLimit)
    IN  IF user_input \in HelpWords
        THEN Intent(1, "Help", <<>>, <<>>)
        ELSE IF Contains(kw_collections, user_input)
                \/ Contains(kw_list_collections, user_input)
        THEN Intent(2, "ListCollections", <<>>, <<>>)
        ELSE IF BrowseMatch(user_input).ok
        THEN Intent(3, "Browse", Strip(BrowseMatch(user_input).g1), <<>>)
        ELSE IF \E i \in 1..Len(scanned) : NameHit(scanned, user_input, i)
        THEN Intent(4, "Browse",
                    LStripSlash(Get(scanned[FirstNameHit(scanned, user_input)],
                                    "alias", <<>>)),
                    <<>>)
        ELSE IF SearchInMatch(user_input).ok
        THEN Intent(5, "SearchInCollection",
                    Strip(SearchInMatch(user_input).g1),
                    Strip(SearchInMatch(user_input).g2))
        ELSE IF StartsWith(user_input, kw_search_prefix)
        THEN Intent(6, "SearchAll",
                    Strip(SubSeq(user_input, Len(kw_search_prefix) + 1, Len(user_input))),
                    <<>>)
        ELSE IF ItemMatch(user_input).ok
        THEN Intent(7, "ItemDetail", ItemMatch(user_input).g1, ItemMatch(user_input).g2)
        ELSE Intent(8, "SearchAll", user_input, <<>>)

Dispatch(colls, lookup, intent, ans) ==
    CASE intent.kind = "Help" -> get_help_message
      [] intent.kind = "ListCollections" -> list_collections(colls)
      [] intent.kind = "Browse" -> browse_collection(colls, lookup, intent.a, ans)
      [] intent.kind = "SearchInCollection" ->
             search_in_collection(colls, lookup, intent.a, intent.b, ans)
      [] intent.kind = "SearchAll" -> search_all_collections(colls, intent.a, ans)
      [] intent.kind = "ItemDetail" -> get_item_details(intent.a, intent.b, ans)

process_query(colls, lookup, user_input, ans) ==
    Dispatch(colls, lookup, IntentOf(colls, Lower(Strip(user_input))), ans)

(***************************************************************************)
(* The bounded universe: what the remote service may hold and answer, and  *)
(* what the user may type.                                                 *)
(***************************************************************************)
\* the longest list of hand-picked collections that follows the filler ones
MaxCore ==
    2

\* the most records a payload given to format_search_results alone carries
MaxRecords ==
    12

\* the largest pager total given to format_search_results alone
MaxTotal ==
    13

cMaps ==
    [alias |-> <<"/","m","1">>, name |-> <<"M","a","p","s">>, secondary |-> <<"0">>]

\* its name ends with a space
cOld ==
    [alias |-> <<"/","o","l","d">>, name |-> <<"O","l","d"," ","M","a","p","s"," ">>, secondary |-> <<"m","1">>]

cDup ==
    [alias |-> <<"/","d","u","p">>, name |-> <<"m","a","p","s">>]

cNoId ==
    [name |-> <<"P","h","o","t","o","s">>]

cAlias ==
    [alias |-> <<"/","x","9">>, name |-> <<"m","1">>]

Pool ==
    {cMaps, cOld, cDup, cNoId, cAlias}

\* the j-th filler collection: its keys occur in no input
Filler(j) ==
    [alias |-> <<"/", "q", LowerAlpha[j]>>, name |-> <<"Z", LowerAlpha[j]>>]

Fillers(n) ==
    [j \in 1..n |-> Filler(j)]

\* how many filler collections precede the hand-picked ones: none, or enough
\* to put them at the edge of the first SearchAllLimit or NameScanLimit
FillerCounts ==
    {0, SearchAllLimit - 1, NameScanLimit - 1, NameScanLimit}

\* sequences of distinct hand-picked collections, at most MaxCore long
Cores ==
    UNION { { c \in [1..n -> Pool] : \A i, j \in 1..n : i # j => c[i] # c[j] }
            : n \in 0..MaxCore }

\* the lists dmGetCollectionList may answer
CollectionLists ==
    { Fillers(n) \o c : n \in FillerCounts, c \in Cores }

msg_e1 ==
    <<"A","P","I"," ","r","e","q","u","e","s","t"," ","f","a","i","l","e","d",":"," ","t","i","m","e","o","u","t">>

rec1 ==
    [title |-> <<"N","i","l","e"," ","m","a","p">>, date |-> <<"1","9","2","0">>, collection |-> <<"/","m","1">>, pointer |-> <<"7">>]

rec2 ==
    [title |-> <<"C","a","i","r","o">>, collection |-> <<"/","o","l","d">>, pointer |-> <<"8">>]

qErr ==
    [error |-> msg_e1]

qNone ==
    [records |-> <<>>, pager |-> [total |-> 0]]

qOne ==
    [records |-> <<rec1>>, pager |-> [total |-> 1]]

qMore ==
    [records |-> <<rec1, rec2>>, pager |-> [total |-> 7]]

qNoPager ==
    [records |-> <<rec2>>]

\* what dmQuery may answer to browse_collection and search_in_collection
QueryPayloads ==
    {qErr, qNone, qMore, qNoPager}

\* the sets of positions whose query finds records: the first k collections,
\* or the last ones from the k-th on
HitSets ==
    { 1..k : k \in 0..SearchAllLimit } \cup { k..SearchAllLimit : k \in 2..SearchAllLimit }

\* what dmQuery may answer to the queries of search_all_collections: records
\* at the positions of a hit set, and at the others either an error or nothing
SearchAllAnswers ==
    { [i \in 1..SearchAllLimit |-> IF i \in h THEN qOne ELSE miss]
      : h \in HitSets, miss \in {qErr, qNone} }

iErr ==
    [error |-> msg_e1]

iFull ==
    [title |-> <<"N","i","l","e"," ","m","a","p">>, date |-> <<"1","9","2","0">>, creato |-> <<"S","u","r","v","e","y">>,
     creator |-> <<"S","u","r","v","e","y"," ","D","e","p","t">>, dmrecord |-> <<"7">>]

iBare ==
    [subject |-> <<"E","g","y","p","t">>, pointer |-> <<"8">>]

\* what dmGetItemInfo may answer
ItemPayloads ==
    {iErr, iFull, iBare}

sp ==
    <<" ">>

\* the collection names a user may type after browse or in
TypedNames ==
    { <<"m","a","p","s">>, <<"m","1">>, <<"M","a","n","u","s","c","r","i","p","t","s">>, <<"o","l","d"," ","m","a","p","s">>, <<"s","p","e","c","i","a","l"," ","c","o","l","l","e","c","t","i","o","n","s">>,
      <<"p","h","o","t","o","s">> }

\* the search terms a user may type
TypedTerms ==
    { <<"n","i","l","e">> }

\* the tokens a user may type after item
TypedTokens ==
    { <<"m","1">>, <<"m","a","p","s">>, <<"C","o","l","l","1">>, <<"b","r","o","w","s","e">>, <<"p","-","7">> }

TypedIds ==
    { <<"1","2">> }

BrowseInput(n) ==
    kw_browse \o sp \o n

SearchInInput(x, y) ==
    kw_search \o sp \o x \o sp \o kw_in \o sp \o y

ItemInput(t1, t2) ==
    kw_item \o sp \o t1 \o sp \o t2

\* the lines the user may type
Inputs ==
    { <<"h","e","l","p">>, <<"H","e","l","p">>, <<"l","i","s","t"," ","c","o","l","l","e","c","t","i","o","n","s">>, <<"n","i","l","e">>, <<"o","l","d"," ","m","a","p","s"," ","o","f"," ","c","a","i","r","o">>,
      <<"s","e","a","r","c","h"," ","n","i","l","e">>, <<"m","a","p","s"," ","c","o","l","l","e","c","t","i","o","n","s">>, <<"p","l","e","a","s","e"," ","b","r","o","w","s","e"," ","z","z">>,
      <<" "," ","s","e","a","r","c","h"," "," ","n","i","l","e"," "," ","i","n"," "," ","m","1"," ">>, <<"r","e","s","e","a","r","c","h"," ","n","i","l","e"," ","i","n"," ","m","1">> }
    \cup { BrowseInput(n) : n \in TypedNames }
    \cup { SearchInInput(x, y) : x \in TypedTerms, y \in TypedNames }
    \cup { ItemInput(t1, t2) : t1 \in TypedTokens, t2 \in TypedIds }

NoAnswers ==
    [q |-> <<>>, item |-> <<>>]

\* the answers the remote service may give while one intent is handled
AnswersFor(intent) ==
    CASE intent.kind \in {"Browse", "SearchInCollection"} ->
             { [q |-> <<a>>, item |-> <<>>] : a \in QueryPayloads }
      [] intent.kind = "SearchAll" ->
             { [q |-> f, item |-> <<>>] : f \in SearchAllAnswers }
      [] intent.kind = "ItemDetail" ->
             { [q |-> <<>>, item |-> d] : d \in ItemPayloads }
      [] OTHER -> {NoAnswers}

(***************************************************************************)
(* The chatbot as a state machine.                                         *)
(***************************************************************************)
VARIABLES
    pc,                 \* "new", "failed" (initialize returned False), "ready"
                        \* (waiting for a line) or "replied" (a line was handled)
    collections,        \* self.collections
    collection_lookup,  \* self.collection_lookup, in insertion order
    user_input,         \* the line last given to process_query
    intent,             \* the rule that fired on it and what it extracted
    answers,            \* what the remote service answered while handling it
    calls,              \* the remote calls made while handling it, in order
    reply               \* the reply, as lines

vars ==
    <<pc, collections, collection_lookup, user_input, intent, answers, calls, reply>>

NoIntent ==
    Intent(0, "None", <<>>, <<>>)

\* AUCArchiveChatbot.__init__
Init ==
    /\ pc = "new"
    /\ collections = <<>>
    /\ collection_lookup = <<>>
    /\ user_input = <<>>
    /\ intent = NoIntent
    /\ answers = NoAnswers
    /\ calls = <<>>
    /\ reply = <<>>

\* initialize() when get_collections() answers an error value
InitializeFails ==
    /\ pc = "new"
    /\ pc' = "failed"
    /\ reply' = <<Line("ErrorLoadingCollections", msg_e1, <<>>, 0, 0)>>
    /\ UNCHANGED <<collections, collection_lookup, user_input, intent, answers, calls>>

\* initialize() when get_collections() answers a list
Initialize ==
    /\ pc = "new"
    /\ \E data \in CollectionLists :
           /\ collections' = data
           /\ collection_lookup' = BuildLookup(data, collection_lookup)
    /\ pc' = "ready"
    /\ UNCHANGED <<user_input, intent, answers, calls, reply>>

\* one call of process_query, with every remote call it makes
ProcessQuery ==
    /\ pc = "ready"
    /\ \E line \in Inputs :
           \E normal \in {Lower(Strip(line))} :
               \E it \in {IntentOf(collections, normal)} :
                   \E ans \in AnswersFor(it) :
                       \E out \in {Dispatch(collections, collection_lookup, it, ans)} :
                           /\ user_input' = line
                           /\ intent' = it
                           /\ answers' = ans
                           /\ calls' = out.calls
                           /\ reply' = out.reply
    /\ pc' = "replied"
    /\ UNCHANGED <<collections, collection_lookup>>

\* the reply is printed and the caller's loop comes back for the next line
NextLine ==
    /\ pc = "replied"
    /\ pc' = "ready"
    /\ user_input' = <<>>
    /\ intent' = NoIntent
    /\ answers' = NoAnswers
    /\ calls' = <<>>
    /\ reply' = <<>>
    /\ UNCHANGED <<collections, collection_lookup>>

Next ==
    \/ InitializeFails
    \/ Initialize
    \/ ProcessQuery
    \/ NextLine

Spec ==
    Init /\ [][Next]_vars

(***************************************************************************)
(* The two formatters on their own: every payload of a bounded shape is    *)
(* given to format_search_results or to format_item_details.               *)
(***************************************************************************)
\* the i-th record of a payload: every third one has no date, and every
\* fourth one the date the code takes for a missing one
SampleRecord(i) ==
    IF i % 3 = 0
    THEN [title |-> <<"t", LowerAlpha[i]>>, collection |-> <<"/","m","1">>,
          pointer |-> <<LowerAlpha[i]>>]
    ELSE [title |-> <<"t", LowerAlpha[i]>>,
          date |-> IF i % 4 = 0 THEN txt_date_unknown ELSE <<"1","9","2","0">>,
          collection |-> <<"/","m","1">>, pointer |-> <<LowerAlpha[i]>>]

SampleRecords(n) ==
    [i \in 1..n |-> SampleRecord(i)]

\* the payloads given to format_search_results: an error, no records key, and
\* every number of records with every pager total or no pager
FormatPayloads ==
    {qErr, [error |-> msg_e1, pager |-> [total |-> 1]], [pager |-> [total |-> 1]]}
    \cup { [records |-> SampleRecords(n)] : n \in 0..MaxRecords }
    \cup { [records |-> SampleRecords(n), pager |-> [total |-> t]]
           : n \in 0..MaxRecords, t \in 0..MaxTotal }

FormatLabels ==
    { <<>>, <<"M","a","p","s">> }

\* the keys of an item payload that have a short code and a long alias
PairedKeys ==
    {"creato", "creator", "subjec", "subject", "descri", "description",
     "dmrecord", "pointer"}

\* the item payloads given to format_item_details: every subset of the paired
\* keys, each empty or with a value, with or without a title
ItemSamples ==
    {iErr, iFull, iBare}
    \cup UNION { { [k \in ks |-> IF k \in full THEN <<k>> ELSE <<>>]
                   : full \in SUBSET ks }
                 : ks \in SUBSET PairedKeys }

InitFormat ==
    /\ collections = <<>>
    /\ collection_lookup = <<>>
    /\ user_input = <<>>
    /\ calls = <<>>
    /\ reply = <<>>
    /\ \/ /\ pc = "format_search_results"
          /\ \E payload \in FormatPayloads, label \in FormatLabels :
                 /\ answers = [q |-> <<payload>>, item |-> <<>>]
                 /\ intent = Intent(0, "FormatSearchResults", label, <<>>)
       \/ /\ pc = "format_item_details"
          /\ \E item \in ItemSamples :
                 /\ answers = [q |-> <<>>, item |-> item]
                 /\ intent = Intent(0, "FormatItemDetails", <<"/","m","1">>, <<>>)

\* format_search_results(results, collection_name)
FormatSearchResults ==
    /\ pc = "format_search_results"
    /\ pc' = "formatted"
    /\ reply' = format_search_results(answers.q[1], intent.a)
    /\ UNCHANGED <<collections, collection_lookup, user_input, intent, answers, calls>>

\* format_item_details(item_data, collection_alias)
FormatItemDetails ==
    /\ pc = "format_item_details"
    /\ pc' = "formatted"
    /\ reply' = format_item_details(answers.item, intent.a)
    /\ UNCHANGED <<collections, collection_lookup, user_input, intent, answers, calls>>

NextFormat ==
    \/ FormatSearchResults
    \/ FormatItemDetails

SpecFormat ==
    InitFormat /\ [][NextFormat]_vars

(***************************************************************************)
(* main: the read loop around process_query.  pc is "ready" at input(),    *)
(* "replied" after a reply was printed, "skipped" at the continue of an    *)
(* empty line, "reported" in the handler of Exception, "quit" and          *)
(* "interrupted" after the two break statements.                           *)
(***************************************************************************)
\* the words that end the session
QuitWords ==
    { <<"q","u","i","t">>, <<"e","x","i","t">>, <<"b","y","e">> }

\* lines that are typed to end the session
QuitLines ==
    { <<"q","u","i","t">>, <<"E","X","I","T">>, <<" ","B","y","e"," ">> }

\* lines that are empty once stripped
EmptyLines ==
    { <<>>, <<" ", " ">> }

\* str(e) of the AttributeError raised by results.get on a decoded answer
\* that is a list
msg_fault ==
    <<"'","l","i","s","t","'"," ","o","b","j","e","c","t"," ","h","a","s"," ","n","o"," ","a","t","t","r","i","b","u","t","e"," ","'","g","e","t","'">>

\* str(e) of the EOFError input() raises at the end of the input
msg_eof ==
    <<"E","O","F"," ","w","h","e","n"," ","r","e","a","d","i","n","g"," ","a"," ","l","i","n","e">>

\* what the handler of Exception prints
ErrorReport(msg) ==
    <<Line("ErrorOccurred", msg, <<>>, 0, 0), Line("TryAgain", <<>>, <<>>, 0, 0)>>

\* a line equal to quit, exit or bye is read: goodbye and break
ReadQuit ==
    /\ pc = "ready"
    /\ \E line \in QuitLines :
           /\ Lower(Strip(line)) \in QuitWords
           /\ user_input' = line
    /\ pc' = "quit"
    /\ reply' = <<Line("Goodbye", <<>>, <<>>, 0, 0)>>
    /\ UNCHANGED <<collections, collection_lookup, intent, answers, calls>>

\* an empty line is read: continue, process_query is not called
ReadEmpty ==
    /\ pc = "ready"
    /\ \E line \in EmptyLines :
           /\ Strip(line) = <<>>
           /\ user_input' = line
    /\ pc' = "skipped"
    /\ UNCHANGED <<collections, collection_lookup, intent, answers, calls, reply>>

\* ProcessFault with a handler that leaves the loop as the handler of
\* KeyboardInterrupt does
ProcessFaultEndsSession ==
    /\ pc = "ready"
    /\ \E line \in Inputs :
           \E normal \in {Lower(Strip(line))} :
               \E it \in {IntentOf(collections, normal)} :
                   \E sent \in {Dispatch(collections, collection_lookup, it,
                                         CHOOSE ans \in AnswersFor(it) : TRUE).calls} :
                       \E k \in 1..Len(sent) :
                           /\ user_input' = line
                           /\ intent' = Intent(it.rule, "Fault", it.a, it.b)
                           /\ calls' = Take(sent, k)
    /\ answers' = NoAnswers
    /\ reply' = ErrorReport(msg_fault)
    /\ pc' = "interrupted"
    /\ UNCHANGED <<collections, collection_lookup>>

\* process_query raises: the k-th remote call of the line answers with a
\* decoded value that is no dict (_make_request returns response.json() as it
\* is), the handler that reads it raises, and the handler of Exception in
\* main reports the fault
ProcessFault ==
    /\ pc = "ready"
    /\ \E line \in Inputs :
           \E normal \in {Lower(Strip(line))} :
               \E it \in {IntentOf(collections, normal)} :
                   \E sent \in {Dispatch(collections, collection_lookup, it,
                                         CHOOSE ans \in AnswersFor(it) : TRUE).calls} :
                       \E k \in 1..Len(sent) :
                           /\ user_input' = line
                           /\ intent' = Intent(it.rule, "Fault", it.a, it.b)
                           /\ calls' = Take(sent, k)
    /\ answers' = NoAnswers
    /\ reply' = ErrorReport(msg_fault)
    /\ pc' = "reported"
    /\ UNCHANGED <<collections, collection_lookup>>

\* input() raises EOFError, an Exception: it is reported like a fault
EndOfInput ==
    /\ pc = "ready"
    /\ pc' = "reported"
    /\ user_input' = <<>>
    /\ reply' = ErrorReport(msg_eof)
    /\ UNCHANGED <<collections, collection_lookup, intent, answers, calls>>

\* KeyboardInterrupt, at input() or while a line is processed: goodbye and
\* break
Interrupt ==
    /\ pc = "ready"
    /\ \E line \in {<<>>} \cup Inputs : user_input' = line
    /\ pc' = "interrupted"
    /\ reply' = <<Line("Goodbye", <<>>, <<>>, 0, 0)>>
    /\ UNCHANGED <<collections, collection_lookup, intent, answers, calls>>

\* after continue, and after the handler of Exception, the loop comes back to
\* input()
ContinueLoop ==
    /\ pc \in {"skipped", "reported"}
    /\ pc' = "ready"
    /\ user_input' = <<>>
    /\ intent' = NoIntent
    /\ answers' = NoAnswers
    /\ calls' = <<>>
    /\ reply' = <<>>
    /\ UNCHANGED <<collections, collection_lookup>>

NextMain ==
    \/ InitializeFails
    \/ Initialize
    \/ ReadQuit
    \/ ReadEmpty
    \/ ProcessQuery
    \/ ProcessFault
    \/ EndOfInput
    \/ Interrupt
    \/ NextLine
    \/ ContinueLoop

SpecMain ==
    Init /\ [][NextMain]_vars

(***************************************************************************)
(* The claims.                                                             *)
(***************************************************************************)
\* the line given to process_query, as process_query normalises it
NormalInput ==
    Lower(Strip(user_input))

\* the identifier of the i-th loaded collection, leading separators stripped
IdOf(i) ==
    LStripSlash(Get(collections[i], "alias", <<>>))

\* the lowercased display name of the i-th loaded collection
LowerNameOf(i) ==
    Lower(Get(collections[i], "name", <<>>))

\* every loaded collection has a non-empty identifier
AllIdentified ==
    \A i \in 1..Len(collections) : IdOf(i) # <<>>

\* C1: every input line "search X in Y" is resolved to SearchInCollection with
\* terms X and collection name Y (as process_query lowercases them), and so
\* never to SearchAll.  (Stated for lists in which every collection has an
\* identifier and for lines that do not hold the word "collections".)
C1_SearchInIsSearchInCollection ==
    \A x \in TypedTerms, y \in TypedNames :
        (/\ pc = "replied"
         /\ AllIdentified
         /\ user_input = SearchInInput(x, y)
         /\ ~Contains(kw_collections, NormalInput))
        => /\ intent.kind = "SearchInCollection"
           /\ intent.a = Lower(x)
           /\ intent.b = Lower(y)

\* the i-th loaded collection is one of the first 10 and its lowercased
\* display name, not empty, occurs in the normalised input
NamedInInput(i) ==
    /\ i \in 1..Len(collections)
    /\ i <= 10
    /\ LowerNameOf(i) # <<>>
    /\ Contains(LowerNameOf(i), NormalInput)

\* the first collection in load order that NamedInInput holds of
FirstNamed ==
    CHOOSE i \in 1..Len(collections) :
        NamedInInput(i) /\ \A j \in 1..(i - 1) : ~NamedInInput(j)

\* C2 as stated: every input that contains the lowercased display name of one
\* of the first 10 loaded collections yields Browse of the first such
\* collection (named by its identifier, or by a name the index resolves to
\* it).  (Stated for lists in which every collection has an identifier.)
C2_NameInInputBrowses ==
    (pc = "replied" /\ AllIdentified /\ \E i \in 1..Len(collections) : NamedInInput(i))
    => /\ intent.kind = "Browse"
       /\ \/ intent.a = IdOf(FirstNamed)
          \/ find_collection_alias(collection_lookup, intent.a)
                 = [found |-> TRUE, alias |-> IdOf(FirstNamed)]

\* no rule before the display-name rule fires on the normalised input
NoEarlierRule ==
    /\ NormalInput \notin HelpWords
    /\ ~Contains(kw_collections, NormalInput)
    /\ ~BrowseMatch(NormalInput).ok

\* C2 amended: every input that is not a help word, does not contain
\* "collections", does not match browse\s+(.+) and contains the non-empty
\* lowercased display name of one of the first 10 loaded collections makes
\* process_query call browse_collection with the identifier (leading
\* separators stripped) of the first such collection in load order.
C2_NameInInputBrowsesUnlessEarlierRule ==
    (pc = "replied" /\ NoEarlierRule /\ \E i \in 1..Len(collections) : NamedInInput(i))
    => /\ intent = Intent(4, "Browse", IdOf(FirstNamed), <<>>)
       /\ Outcome(calls, reply)
              = browse_collection(collections, collection_lookup, IdOf(FirstNamed), answers)

\* C2 witness: the display-name rule fires on the tenth loaded collection
\* while a later one in the list is named by the input as well.
C2_Witness ==
    /\ pc = "replied"
    /\ NoEarlierRule
    /\ \E i \in 1..Len(collections) : NamedInInput(i)
    /\ FirstNamed = 10
    /\ Len(collections) > 10
    /\ Contains(LowerNameOf(11), NormalInput)
    /\ intent = Intent(4, "Browse", IdOf(10), <<>>)

\* C3 as stated: after initialize(), find_collection_alias of the lowercased
\* display name of every loaded collection returns that collection's
\* identifier.  (Stated for lists in which every collection has an identifier.)
C3_EveryNameResolves ==
    (pc = "ready" /\ AllIdentified)
    => \A i \in 1..Len(collections) :
           find_collection_alias(collection_lookup, LowerNameOf(i))
               = [found |-> TRUE, alias |-> IdOf(i)]

\* the key lower(D) of the i-th collection is inserted, is looked up as it is
\* and is not set again by a collection loaded later
KeepsItsNameKey(i) ==
    /\ IdOf(i) # <<>>
    /\ Strip(LowerNameOf(i)) = LowerNameOf(i)
    /\ \A j \in (i + 1)..Len(collections) :
           IdOf(j) # <<>> => /\ Lower(IdOf(j)) # LowerNameOf(i)
                            /\ LowerNameOf(j) # LowerNameOf(i)

\* C3 amended: after initialize(), for every loaded collection that has a
\* non-empty identifier and a display name D without leading or trailing
\* whitespace such that lowercase(D) is neither the lowercased identifier nor
\* the lowercased display name of a collection loaded later (with a non-empty
\* identifier), find_collection_alias(lowercase(D)) returns that collection's
\* identifier.
C3_NameResolvesUnlessOverwritten ==
    pc = "ready"
    => \A i \in 1..Len(collections) :
           KeepsItsNameKey(i)
           => find_collection_alias(collection_lookup, LowerNameOf(i))
                  = [found |-> TRUE, alias |-> IdOf(i)]

\* C3 witness: an index built from a list in which a collection with a
\* capitalised display name resolves although a later collection has another
\* name, next to one whose name key a later collection has taken.
C3_Witness ==
    /\ pc = "ready"
    /\ \E i, k \in 1..Len(collections) :
           /\ KeepsItsNameKey(i)
           /\ i < Len(collections)
           /\ LowerNameOf(i) # Get(collections[i], "name", <<>>)
           /\ IdOf(k) # <<>>
           /\ ~KeepsItsNameKey(k)

\* the number of lines of the reply that carry the tag
CountTag(tag) ==
    Cardinality({ i \in 1..Len(reply) : reply[i].tag = tag })

\* the payload format_search_results was given
Payload ==
    answers.q[1]

\* the number of records the payload holds
PayloadRecords ==
    Len(Get(Payload, "records", <<>>))

HasPagerTotal ==
    "pager" \in DOMAIN Payload /\ "total" \in DOMAIN Payload["pager"]

FormattedSearch ==
    pc = "formatted" /\ intent.kind = "FormatSearchResults"

\* C4 as stated: format_search_results renders at most 10 records, and appends
\* the "Showing X of Y" line exactly when the pager total of the payload
\* exceeds the number of records rendered.  (Stated for payloads that hold a
\* list of records.)
C4_SummaryIffTotalExceedsRendered ==
    (FormattedSearch /\ "records" \in DOMAIN Payload)
    => /\ CountTag("Record") <= 10
       /\ HasPagerTotal
          => (CountTag("Showing") = 1 <=> Payload["pager"]["total"] > CountTag("Record"))

\* the payload is rendered as a list: it is no error and holds a record
RenderedAsList ==
    "error" \notin DOMAIN Payload /\ PayloadRecords > 0

\* C4 amended: format_search_results renders at most 10 records, namely the
\* first 10 of the payload or all of them when there are fewer, and none when
\* the payload is an error; it appends the "Showing X of Y" line, with X the
\* number rendered and Y the pager total, exactly when the payload is no
\* error, holds at least one record and has a pager total that exceeds the
\* number of records rendered.
C4_SummaryIffListedAndTotalExceeds ==
    FormattedSearch
    => /\ CountTag("Record") <= 10
       /\ CountTag("Record")
              = (IF ~RenderedAsList THEN 0
                 ELSE IF PayloadRecords < 10 THEN PayloadRecords ELSE 10)
       /\ CountTag("Showing") <= 1
       /\ CountTag("Showing") = 1
              <=> /\ RenderedAsList
                  /\ HasPagerTotal
                  /\ Payload["pager"]["total"] > CountTag("Record")
       /\ CountTag("Showing") = 1
              => reply[Len(reply)]
                     = Line("Showing", <<>>, <<>>, CountTag("Record"),
                            Payload["pager"]["total"])

\* C4 witness: a payload of more than 10 records whose pager total equals the
\* number of its records: 10 are rendered and the summary line is appended.
C4_Witness ==
    /\ FormattedSearch
    /\ PayloadRecords > 10
    /\ HasPagerTotal
    /\ Payload["pager"]["total"] = PayloadRecords
    /\ CountTag("Record") = 10
    /\ CountTag("Showing") = 1

\* the item payload format_item_details was given
Item ==
    answers.item

FormattedItem ==
    pc = "formatted" /\ intent.kind = "FormatItemDetails" /\ "error" \notin DOMAIN Item

\* the key is present in the item payload with a non-empty value
HasValue(k) ==
    k \in DOMAIN Item /\ Item[k] # <<>>

\* the values the reply shows for an attribute: those of its lines with the
\* attribute's tag (the view-item line carries the pointer second)
ShownValues(tag) ==
    { IF tag = "ViewItem" THEN reply[i].b ELSE reply[i].a
      : i \in { j \in 1..Len(reply) : reply[j].tag = tag } }

\* the attributes with a short-code key and a long-alias key, and their lines
Attributes ==
    { <<"creato", "creator", "Creator">>,
      <<"subjec", "subject", "Subject">>,
      <<"descri", "description", "Description">>,
      <<"dmrecord", "pointer", "ViewItem">> }

\* C5 as stated: for each attribute, format_item_details renders the
\* short-code value when both keys are present (with a value to render),
\* renders the long-alias value when only the long alias is present, and
\* omits the field only when neither key is present with a value.
C5_OmittedOnlyWhenNoValue ==
    FormattedItem
    => \A at \in Attributes :
           /\ (at[2] \in DOMAIN Item /\ HasValue(at[1]))
              => ShownValues(at[3]) = {Item[at[1]]}
           /\ (at[1] \notin DOMAIN Item /\ HasValue(at[2]))
              => ShownValues(at[3]) = {Item[at[2]]}
           /\ ShownValues(at[3]) = {}
              => (~HasValue(at[1]) /\ ~HasValue(at[2]))

\* C5 amended: for each attribute, format_item_details renders the short-code
\* value when the short-code key is present with a non-empty value (whether
\* or not the long alias is present), renders the long-alias value when the
\* short-code key is absent and the long alias is present with a non-empty
\* value, and omits the field in every other case: when neither key has a
\* value, and also when the short-code key is present with an empty value,
\* even if the long alias has a value.
C5_ShortKeyDecidesWhenPresent ==
    FormattedItem
    => \A at \in Attributes :
           ShownValues(at[3])
               = (IF HasValue(at[1]) THEN {Item[at[1]]}
                  ELSE IF at[1] \notin DOMAIN Item /\ HasValue(at[2]) THEN {Item[at[2]]}
                  ELSE {})

\* C5 witness: an item with both creator keys (the short one is shown), only
\* the long subject key (it is shown) and an empty short pointer key beside a
\* long one with a value (no view-item line).
C5_Witness ==
    /\ FormattedItem
    /\ HasValue("creato")
    /\ HasValue("creator")
    /\ ShownValues("Creator") = {Item["creato"]}
    /\ "subjec" \notin DOMAIN Item
    /\ HasValue("subject")
    /\ ShownValues("Subject") = {Item["subject"]}
    /\ "dmrecord" \in DOMAIN Item
    /\ HasValue("pointer")
    /\ ShownValues("ViewItem") = {}

\* no key of the index equals the name, contains it or occurs in it
NoKeyMatches(name) ==
    \A i \in 1..Len(collection_lookup) :
        /\ collection_lookup[i].key # name
        /\ ~Contains(name, collection_lookup[i].key)
        /\ ~Contains(collection_lookup[i].key, name)

\* C6 as stated: for an input "browse N" where no loaded collection has an
\* identifier or display name equal to N and none partially matches N (N as
\* process_query lowercases it), the reply is exactly the not-found message
\* quoting N, and no remote call is made.
C6_UnknownBrowseIsNotFound ==
    \A n \in TypedNames :
        (/\ pc = "replied"
         /\ collection_lookup # <<>>
         /\ user_input = BrowseInput(n)
         /\ NoKeyMatches(Lower(n)))
        => /\ reply = NotFoundReply(Lower(n))
           /\ calls = <<>>

\* C6 amended: for an input "browse N" that does not contain the word
\* "collections", where no key of the index (lowercased identifier or display
\* name) equals the lowercased, trimmed N, contains it or occurs in it, the
\* reply is exactly the not-found message quoting the lowercased, trimmed N
\* with the "Use 'list collections'" guidance, and no remote call is made.
C6_UnknownBrowseIsNotFoundUnlessListed ==
    \A n \in TypedNames :
        (/\ pc = "replied"
         /\ user_input = BrowseInput(n)
         /\ ~Contains(kw_collections, NormalInput)
         /\ NoKeyMatches(Lower(n)))
        => /\ reply = NotFoundReply(Lower(n))
           /\ calls = <<>>

\* C6 witness: "browse Manuscripts" with an index that holds keys, none of
\* which matches: the not-found message quotes "manuscripts".
C6_Witness ==
    /\ pc = "replied"
    /\ user_input = BrowseInput(<<"M","a","n","u","s","c","r","i","p","t","s">>)
    /\ Len(collection_lookup) >= 2
    /\ NoKeyMatches(<<"m","a","n","u","s","c","r","i","p","t","s">>)
    /\ reply = NotFoundReply(<<"m","a","n","u","s","c","r","i","p","t","s">>)
    /\ calls = <<>>

\* every character of the token is a \w character
IsWordToken(t) ==
    \A i \in 1..Len(t) : IsWord(t[i])

\* C7: for an input "item T1 T2" of two tokens (of word characters, on a line
\* that no help, list or browse rule takes), process_query calls
\* get_item_info(T1, T2) exactly once, and when that call returns an error
\* value with message M the reply is exactly the item-error line carrying M.
\* (Stated for lists in which every collection has an identifier.)
C7_ItemLineGetsItemInfo ==
    \A t1 \in TypedTokens, t2 \in TypedIds :
        (/\ pc = "replied"
         /\ AllIdentified
         /\ user_input = ItemInput(t1, t2)
         /\ IsWordToken(t1)
         /\ IsWordToken(t2)
         /\ NoEarlierRule)
        => /\ calls = <<Call("get_item_info", Lower(t1), Lower(t2), 0)>>
           /\ "error" \in DOMAIN answers.item
              => reply = <<Line("ItemError", answers.item["error"], <<>>, 0, 0)>>

\* the collection name a Browse or SearchInCollection intent carries
TypedCollection ==
    IF intent.kind = "Browse" THEN intent.a ELSE intent.b

\* the i-th key of the index contains the typed collection name or occurs in it
PartialKey(i) ==
    \/ Contains(Strip(Lower(TypedCollection)), collection_lookup[i].key)
    \/ Contains(collection_lookup[i].key, Strip(Lower(TypedCollection)))

\* the typed collection name is resolved and is no key of the index
ResolvedWithoutExactKey ==
    /\ pc = "replied"
    /\ intent.kind \in {"Browse", "SearchInCollection"}
    /\ \A i \in 1..Len(collection_lookup) :
           collection_lookup[i].key # Strip(Lower(TypedCollection))

\* C8: when the lowercased, trimmed name has no exact key in the index, the
\* collection browsed or searched is the one mapped by the first key, in
\* insertion order, that contains the name or occurs in it; the name is
\* reported as not found, with no remote call, only when no key does.
C8_FirstPartialKeyWins ==
    ResolvedWithoutExactKey
    => IF \E i \in 1..Len(collection_lookup) : PartialKey(i)
       THEN \E i \in 1..Len(collection_lookup) :
                /\ PartialKey(i)
                /\ \A j \in 1..(i - 1) : ~PartialKey(j)
                /\ Len(calls) = 1
                /\ calls[1].alias = collection_lookup[i].alias
       ELSE /\ calls = <<>>
            /\ reply = NotFoundReply(TypedCollection)

\* C8 witness: a name without exact key that two keys of different
\* collections match, the later one only because it occurs in the name; the
\* call goes to the collection of the first.
C8_Witness ==
    /\ ResolvedWithoutExactKey
    /\ \E i, j \in 1..Len(collection_lookup) :
           /\ i < j
           /\ PartialKey(i)
           /\ \A k \in 1..(i - 1) : ~PartialKey(k)
           /\ PartialKey(j)
           /\ Contains(collection_lookup[j].key, Strip(Lower(TypedCollection)))
           /\ collection_lookup[i].alias # collection_lookup[j].alias
           /\ Len(calls) = 1
           /\ calls[1].alias = collection_lookup[i].alias

\* the positions of the collections search_all_collections queries
Queried ==
    { i \in 1..Len(collections) :
        i <= SearchAllLimit /\ Get(collections[i], "alias", <<>>) # <<>> }

\* the answer is an error value
IsError(a) ==
    "error" \in DOMAIN a

\* some remote call of the handled line returned an error value
ErrorReturned ==
    /\ pc = "replied"
    /\ calls # <<>>
    /\ \/ intent.kind \in {"Browse", "SearchInCollection"} /\ IsError(answers.q[1])
       \/ intent.kind = "ItemDetail" /\ IsError(answers.item)
       \/ intent.kind = "SearchAll" /\ \E i \in Queried : IsError(answers.q[i])

\* no remote call was made twice
NoCallRepeated ==
    \A i, j \in 1..Len(calls) : i # j => calls[i] # calls[j]

\* the messages of the error values returned while the line was handled
ReturnedMessages ==
    CASE intent.kind \in {"Browse", "SearchInCollection"} -> {answers.q[1]["error"]}
      [] intent.kind = "ItemDetail" -> {answers.item["error"]}
      [] OTHER -> { answers.q[i]["error"] : i \in { j \in Queried : IsError(answers.q[j]) } }

\* C9 as stated: when a remote call returns an error value, the call is not
\* repeated and the reply is a single error line carrying the message.
C9_ErrorReplyCarriesMessage ==
    (ErrorReturned /\ AllIdentified)
    => /\ NoCallRepeated
       /\ \E m \in ReturnedMessages :
              \/ reply = <<Line("SearchError", m, <<>>, 0, 0)>>
              \/ reply = <<Line("ItemError", m, <<>>, 0, 0)>>

\* the number of records the queried collections returned without error
RECURSIVE RecordsReturned(_)
RecordsReturned(i) ==
    IF i > Len(collections) \/ i > SearchAllLimit THEN 0
    ELSE (IF i \in Queried
          THEN Len(Get(answers.q[i], "records", <<>>))
          ELSE 0)
         + RecordsReturned(i + 1)

\* C9 amended: no failed remote call is repeated.  When the one call of a
\* browse, of a search in a collection or of an item lookup returns an error
\* value, the reply is a single error line carrying its message.  When a call
\* of a search across collections returns an error value, every queried
\* collection is still called once, the failed collection contributes no
\* record, and the reply carries no error line: it is the no-items line when
\* no collection returned records, the combined list otherwise.
C9_ErrorReplyCarriesMessageExceptSearchAll ==
    ErrorReturned
    => /\ NoCallRepeated
       /\ intent.kind \in {"Browse", "SearchInCollection"}
          => /\ Len(calls) = 1
             /\ reply = <<Line("SearchError", answers.q[1]["error"], <<>>, 0, 0)>>
       /\ intent.kind = "ItemDetail"
          => /\ Len(calls) = 1
             /\ reply = <<Line("ItemError", answers.item["error"], <<>>, 0, 0)>>
       /\ intent.kind = "SearchAll"
          => /\ Len(calls) = Cardinality(Queried)
             /\ CountTag("SearchError") = 0
             /\ CountTag("ItemError") = 0
             /\ CountTag("Record") =
                    IF RecordsReturned(1) < CombinedLimit
                    THEN RecordsReturned(1) ELSE CombinedLimit
             /\ RecordsReturned(1) = 0
                => reply = <<Line("NoItemsFor", intent.a, <<>>, 0, 0)>>

\* C9 witness: a search across collections in which one queried collection
\* answers with an error and another with records, which the reply lists.
C9_Witness ==
    /\ ErrorReturned
    /\ intent.kind = "SearchAll"
    /\ Cardinality(Queried) >= 2
    /\ \E i, j \in Queried :
           /\ IsError(answers.q[i])
           /\ Get(answers.q[j], "records", <<>>) # <<>>
    /\ CountTag("Record") >= 1
    /\ CountTag("SearchError") = 0

\* the display names of the queried collections from position i on
RECURSIVE QueriedNames(_)
QueriedNames(i) ==
    IF i > Len(collections) \/ i > SearchAllLimit THEN <<>>
    ELSE (IF i \in Queried THEN <<Get(collections[i], "name", <<>>)>> ELSE <<>>)
         \o QueriedNames(i + 1)

\* C10: when a search across collections returns records, the trailer names
\* up to TrailerLimit of the collections that were queried and, when more
\* than TrailerLimit were queried, gives the count of the remaining ones.
C10_TrailerNamesQueried ==
    (pc = "replied" /\ AllIdentified
     /\ intent.kind = "SearchAll" /\ CountTag("Record") >= 1)
    => /\ \E k \in 1..Len(reply) :
              reply[k] = Line("SearchedIn",
                              JoinComma(Take(QueriedNames(1), TrailerLimit)),
                              <<>>, 0, 0)
       /\ Len(QueriedNames(1)) > TrailerLimit
          => \E k \in 1..Len(reply) :
                 reply[k] = Line("MoreCollections", <<>>, <<>>,
                                 Len(QueriedNames(1)) - TrailerLimit, 0)

\* C11 as stated: the browse rule resolves an input to Browse(rest) only when
\* the keyword "browse" is at the start of the trimmed, lowercased input, rest
\* being the remaining text.
C11_BrowseOnlyAtStart ==
    (pc = "replied" /\ intent.rule = 3)
    => /\ StartsWith(NormalInput, kw_browse)
       /\ intent.a = Strip(SubSeq(NormalInput, Len(kw_browse) + 1, Len(NormalInput)))

\* the positions of s at which "browse" stands, followed by whitespace and
\* at least one further character
BrowsePositions(s) ==
    { p \in 1..Len(s) :
        /\ LitAt(s, p, kw_browse)
        /\ p + Len(kw_browse) < Len(s)
        /\ IsSpace(s[p + Len(kw_browse)]) }

\* C11 amended: process_query resolves an input by the browse rule exactly
\* when the trimmed, lowercased input is no help word, does not contain
\* "collections", and contains, at any position, the keyword "browse"
\* followed by whitespace and further text; the input is then resolved to
\* Browse(rest), rest being the trimmed text after the first such occurrence
\* of the keyword.
C11_BrowseAnywhere ==
    pc = "replied"
    => LET s  == NormalInput
           ps == BrowsePositions(s)
       IN  /\ intent.rule = 3
              <=> /\ s \notin HelpWords
                  /\ ~Contains(kw_collections, s)
                  /\ ps # {}
           /\ intent.rule = 3
              => /\ intent.kind = "Browse"
                 /\ \E p \in ps :
                        /\ \A q \in ps : p <= q
                        /\ intent.a = Strip(SubSeq(s, p + Len(kw_browse), Len(s)))

\* C11 witness: "please browse zz", where the keyword stands later in the
\* line, is resolved by the browse rule to Browse("zz").
C11_Witness ==
    /\ pc = "replied"
    /\ collections # <<>>
    /\ user_input = <<"p","l","e","a","s","e"," ","b","r","o","w","s","e"," ","z","z">>
    /\ ~StartsWith(NormalInput, kw_browse)
    /\ intent.rule = 3
    /\ intent.kind = "Browse"
    /\ intent.a = <<"z","z">>

\* the session has ended
SessionEnded ==
    pc \in {"quit", "interrupted"}

\* C12 as stated: the session ends only on a line equal, case-insensitively,
\* to quit, exit or bye.
C12_SessionEndsOnlyOnQuitLine ==
    SessionEnded => Lower(Strip(user_input)) \in QuitWords

\* one step of the read loop
ReadLoopStep ==
    /\ (~SessionEnded /\ SessionEnded')
       => /\ pc = "ready"
          /\ \/ pc' = "quit" /\ Lower(Strip(user_input')) \in QuitWords
             \/ pc' = "interrupted" /\ intent' = intent /\ calls' = calls
    /\ (pc = "ready" /\ intent'.kind = "Fault")
       => /\ pc' = "reported"
          /\ reply' = ErrorReport(msg_fault)
    /\ pc \in {"replied", "reported", "skipped"} => pc' = "ready"
    /\ (pc = "ready" /\ Strip(user_input') = <<>> /\ pc' \notin {"reported", "interrupted"})
       => /\ pc' = "skipped"
          /\ intent' = NoIntent
          /\ calls' = <<>>
          /\ reply' = <<>>

\* C12 amended: in the read loop, a fault (an Exception) raised while one
\* input line is processed is caught and reported and the loop then reads the
\* next line; the session ends only on a line that, once trimmed, equals
\* (case-insensitively) quit, exit or bye, or on a keyboard interrupt, never
\* because processing of a line failed; lines that are empty once trimmed are
\* skipped without calling process_query.
C12_ReadLoopSurvivesFaults ==
    [][ReadLoopStep]_vars

\* C12 witness: a fault was raised after a remote call of the line and was
\* reported; the session has not ended.
C12_Witness ==
    /\ pc = "reported"
    /\ intent.kind = "Fault"
    /\ collections # <<>>
    /\ Len(calls) >= 2
    /\ reply = ErrorReport(msg_fault)
    /\ ~SessionEnded

====
